---------------------------- MODULE Spec2Model ----------------------------
(***************************************************************************)
(* Open Rack Vent (orv-python): the thermistor conversion pipeline         *)
(* (open_rack_vent/thermistor.py), the wiring configuration and its        *)
(* validation (host_hardware/board_interface_types.py, orvcli.py) and the  *)
(* hardware interface builder (host_hardware/board_interfaces.py).         *)
(*                                                                         *)
(* Python floats are modelled as exact rationals [num, den]: the table's   *)
(* keys and temperatures are integer valued, a resistance is the fraction  *)
(* the formula yields.  A Python call is modelled by its outcome: a        *)
(* record with the flag `raised` (an exception left the call) and the      *)
(* value returned otherwise.                                               *)
(***************************************************************************)
EXTENDS Integers, Sequences, FiniteSets, TLC

VARIABLES
    lastCounts,     \* the last direct call of _counts_to_resistance
    table,          \* a resistance -> temperature dict handed to the resolver
    lastResolve,    \* the last direct call of _thermistor_temperature_resistance
    asset,          \* the content of the lookup asset file
    converter,      \* what create_adc_counts_to_temperature_converter produced
    lastConvert,    \* the last call of the closure adc_counts_to_temperature
    payload,        \* the value of --wire-mapping-json
    validation,     \* what validate_pydantic_json(WireMapping, ...) produced
    hardware,       \* what create_hardware_interface produced
    mqttInterface,  \* the hardware interface the MQTT callbacks and loop hold
    lastMessage,    \* the last run of the MQTT on_message callback
    loop,           \* the MQTT publish loop: where it is, the cycles it ran
    lastCycle,      \* the last publish cycle of the loop
    cli,            \* the options run was started with, and the call that fails
    rn,             \* run: its position and its locals
    leds            \* the onboard LED writes, by run and by each toggling job

thermVars == <<lastCounts, table, lastResolve, asset, converter, lastConvert>>

wiringVars == <<payload, validation, hardware>>

mqttVars == <<mqttInterface, lastMessage, loop, lastCycle>>

runVars == <<cli, rn, leds>>

vars == <<lastCounts, table, lastResolve, asset, converter, lastConvert,
          payload, validation, hardware,
          mqttInterface, lastMessage, loop, lastCycle, cli, rn, leds>>

-----------------------------------------------------------------------------
(* Program constants.                                                      *)

RESISTANCE_OF_PULLDOWN == 10000

U_12_MAX == 4096

(* Bounds of the model.                                                    *)

MaxCounts == 5          \* adc_counts range over -MaxCounts..MaxCounts

MaxPulldown == 2        \* small pulldown resistances 1..MaxPulldown

MaxFullScale == 4       \* small full-scale counts 1..MaxFullScale

MaxKey == 3             \* resistance keys of a table: 0..MaxKey

MaxTemp == 2            \* temperatures of a table: 0..MaxTemp

MaxTableLen == 3        \* entries of a table handed to the resolver

MaxEntries == 2         \* entries of the lookup asset

-----------------------------------------------------------------------------
(* Outcomes of calls.                                                      *)

Abs(x) == IF x < 0 THEN -x ELSE x

Rational(n, d) == [num |-> n, den |-> d]

Returned(v) == [raised |-> FALSE, val |-> v]

Raised == [raised |-> TRUE, val |-> 0]

RaisedRational == [raised |-> TRUE, val |-> Rational(0, 1)]

(* Two rationals denote the same number.                                   *)
SameNumber(p, q) == p.num * q.den = q.num * p.den

-----------------------------------------------------------------------------
(* thermistor.py: _counts_to_resistance                                    *)
(*   float((pulldown_resistance * (max_adc_count / adc_counts))            *)
(*         - pulldown_resistance)                                          *)
(* The true division raises ZeroDivisionError for adc_counts = 0; then the *)
(* quotient max/adc is multiplied by the pulldown and the pulldown is      *)
(* subtracted, each step on fractions with the denominator adc_counts.     *)

TrueDivide(a, b) == IF b = 0 THEN RaisedRational ELSE Returned(Rational(a, b))

Times(k, q) == Rational(k * q.num, q.den)

Minus(q, k) == Rational(q.num - k * q.den, q.den)

(* The formula with the pulldown not subtracted (the divider's total         *)
(* resistance instead of the thermistor's share).                          *)
counts_to_resistance_total(adc_counts, pulldown_resistance, max_adc_count) ==
    LET quotient == TrueDivide(max_adc_count, adc_counts)
    IN  IF quotient.raised
        THEN RaisedRational
        ELSE Returned(Times(pulldown_resistance, quotient.val))

counts_to_resistance(adc_counts, pulldown_resistance, max_adc_count) ==
    LET quotient == TrueDivide(max_adc_count, adc_counts)
    IN  IF quotient.raised
        THEN RaisedRational
        ELSE Returned(Minus(Times(pulldown_resistance, quotient.val),
                            pulldown_resistance))

-----------------------------------------------------------------------------
(* thermistor.py: _closest_to_value                                        *)
(*   list_of_values[min(range(len(list_of_values)),                        *)
(*                      key=lambda i: abs(list_of_values[i] - value))]     *)
(* min() scans the indices in order and keeps the first index whose key is *)
(* strictly smaller than the best so far; on an empty range it raises      *)
(* ValueError.  abs(x - value) for value = num/den is                      *)
(* |x*den - num| / |den|: the candidates share |den|, so the numerators    *)
(* decide the comparison.                                                  *)

AbsDifference(x, value) == Abs(x * value.den - value.num)

RECURSIVE MinIndex(_, _, _, _)
MinIndex(value, list_of_values, i, best) ==
    IF i > Len(list_of_values)
    THEN best
    ELSE MinIndex(value, list_of_values, i + 1,
                  IF AbsDifference(list_of_values[i], value)
                         < AbsDifference(list_of_values[best], value)
                  THEN i ELSE best)

(* A scan that also replaces the best on an equal key: the last minimum.   *)
RECURSIVE MinIndexLast(_, _, _, _)
MinIndexLast(value, list_of_values, i, best) ==
    IF i > Len(list_of_values)
    THEN best
    ELSE MinIndexLast(value, list_of_values, i + 1,
                      IF AbsDifference(list_of_values[i], value)
                             <= AbsDifference(list_of_values[best], value)
                      THEN i ELSE best)

(* The signed difference in place of the absolute one.                     *)
RECURSIVE MinIndexSigned(_, _, _, _)
MinIndexSigned(value, list_of_values, i, best) ==
    IF i > Len(list_of_values)
    THEN best
    ELSE MinIndexSigned(value, list_of_values, i + 1,
              IF (list_of_values[i] * value.den - value.num) * value.den
                     < (list_of_values[best] * value.den - value.num) * value.den
              THEN i ELSE best)

closest_to_value_signed(value, list_of_values) ==
    IF Len(list_of_values) = 0
    THEN Raised
    ELSE Returned(list_of_values[MinIndexSigned(value, list_of_values, 2, 1)])

closest_to_value_last(value, list_of_values) ==
    IF Len(list_of_values) = 0
    THEN Raised
    ELSE Returned(list_of_values[MinIndexLast(value, list_of_values, 2, 1)])

closest_to_value(value, list_of_values) ==
    IF Len(list_of_values) = 0
    THEN Raised
    ELSE Returned(list_of_values[MinIndex(value, list_of_values, 2, 1)])

-----------------------------------------------------------------------------
(* A Dict[float, float] is a sequence of [key, temp] entries with distinct *)
(* keys, in insertion order (the order Python iterates a dict in).         *)

Keys(dict) == [i \in 1..Len(dict) |-> dict[i].key]

Temperatures(dict) == {dict[i].temp : i \in 1..Len(dict)}

HasKey(dict, k) == \E i \in 1..Len(dict) : dict[i].key = k

DictGet(dict, k) ==
    IF HasKey(dict, k)
    THEN Returned(dict[CHOOSE i \in 1..Len(dict) : dict[i].key = k].temp)
    ELSE Raised

(* d[k] = v: an existing key keeps its place and takes the new value.      *)
DictSet(dict, k, v) ==
    IF HasKey(dict, k)
    THEN [i \in 1..Len(dict) |->
             IF dict[i].key = k THEN [key |-> k, temp |-> v] ELSE dict[i]]
    ELSE Append(dict, [key |-> k, temp |-> v])

(* A resolver that interpolates: off an exact key, the midpoint of the     *)
(* temperatures of the two nearest keys.                                   *)
WithoutIndex(seq, i) == [j \in 1..(Len(seq) - 1) |-> IF j < i THEN seq[j] ELSE seq[j + 1]]

thermistor_temperature_resistance_interpolated(resistance, resistance_to_temperature) ==
    LET keys == Keys(resistance_to_temperature)
        i    == MinIndex(resistance, keys, 2, 1)
        rest == WithoutIndex(resistance_to_temperature, i)
        j    == MinIndex(resistance, Keys(rest), 2, 1)
    IN  IF Len(keys) = 0
        THEN Raised
        ELSE IF Len(keys) = 1 \/ AbsDifference(keys[i], resistance) = 0
             THEN Returned(resistance_to_temperature[i].temp)
             ELSE Returned((resistance_to_temperature[i].temp + rest[j].temp) \div 2)

(* thermistor.py: _thermistor_temperature_resistance                       *)
(*   resistance_to_temperature[_closest_to_value(resistance,               *)
(*                              list(resistance_to_temperature.keys()))]   *)
thermistor_temperature_resistance(resistance, resistance_to_temperature) ==
    LET closest == closest_to_value(resistance, Keys(resistance_to_temperature))
    IN  IF closest.raised
        THEN Raised
        ELSE DictGet(resistance_to_temperature, closest.val)

-----------------------------------------------------------------------------
(* The lookup asset: a file that json.load either rejects ("invalid"),     *)
(* reads as something that is no object ("array"), or reads as an object   *)
(* whose items are <<temperature string, resistance string>> in the file's *)
(* order, the temperature strings distinct.  A string is a numeral of an   *)
(* integer value or a text float() rejects.                                *)

Numeral(v) == [numeric |-> TRUE, val |-> v]

NotANumber == [numeric |-> FALSE, val |-> 0]

(* float(s): the value of a numeral, ValueError otherwise.                 *)
Float(s) == IF s.numeric THEN Returned(s.val) ELSE Raised

Loaded(dict) == [raised |-> FALSE, table |-> dict]

LoadFailed == [raised |-> TRUE, table |-> <<>>]

(* The dict comprehension                                                  *)
(*   {float(resistance_str): float(temperature_str)                       *)
(*    for temperature_str, resistance_str in lookup_dict.items()}          *)
(* item by item: the first float() that raises ends the comprehension.     *)
RECURSIVE DictComprehension(_, _, _)
DictComprehension(items, i, acc) ==
    IF i > Len(items)
    THEN Loaded(acc)
    ELSE LET k == Float(items[i].resistance_str)
             v == Float(items[i].temperature_str)
         IN  IF k.raised \/ v.raised
             THEN LoadFailed
             ELSE DictComprehension(items, i + 1, DictSet(acc, k.val, v.val))

(* A loader that drops the items it cannot convert.                        *)
RECURSIVE DictComprehensionSkipping(_, _, _)
DictComprehensionSkipping(items, i, acc) ==
    IF i > Len(items)
    THEN Loaded(acc)
    ELSE LET k == Float(items[i].resistance_str)
             v == Float(items[i].temperature_str)
         IN  IF k.raised \/ v.raised
             THEN DictComprehensionSkipping(items, i + 1, acc)
             ELSE DictComprehensionSkipping(items, i + 1, DictSet(acc, k.val, v.val))

read_resistance_to_temperature_skipping(lookup_json) ==
    IF lookup_json.json # "object"
    THEN Loaded(<<>>)
    ELSE DictComprehensionSkipping(lookup_json.items, 1, <<>>)

(* thermistor.py: _read_resistance_to_temperature.  json.load raises       *)
(* JSONDecodeError on an invalid file; .items() raises AttributeError on a *)
(* value that is no object.  The resistance is taken as float() gives it:  *)
(* the code multiplies it by nothing.                                      *)
read_resistance_to_temperature(lookup_json) ==
    IF lookup_json.json = "invalid"
    THEN LoadFailed
    ELSE IF lookup_json.json # "object"
         THEN LoadFailed
         ELSE DictComprehension(lookup_json.items, 1, <<>>)

-----------------------------------------------------------------------------
(* thermistor.py: the closure adc_counts_to_temperature.  Its outcome is   *)
(* a number ("value"), None ("none") or an exception ("raise").            *)

Number(v) == [kind |-> "value", val |-> v]

None == [kind |-> "none", val |-> 0]

Propagated == [kind |-> "raise", val |-> 0]

(* The body without its try/except.                                        *)
adc_counts_to_temperature_unguarded(adc_counts, resistance_to_temperature, pulldown_resistance, max_adc_count) ==
    LET resistance_ohms ==
            counts_to_resistance(adc_counts, pulldown_resistance, max_adc_count)
        temperature ==
            thermistor_temperature_resistance(resistance_ohms.val,
                                              resistance_to_temperature)
    IN  IF resistance_ohms.raised
        THEN Propagated
        ELSE IF temperature.raised THEN Propagated ELSE Number(temperature.val)

adc_counts_to_temperature(adc_counts, resistance_to_temperature, pulldown_resistance, max_adc_count) ==
    LET resistance_ohms ==
            counts_to_resistance(adc_counts, pulldown_resistance, max_adc_count)
        temperature ==
            thermistor_temperature_resistance(resistance_ohms.val,
                                              resistance_to_temperature)
    IN  IF resistance_ohms.raised
        THEN None                       \* except Exception: return None
        ELSE IF temperature.raised THEN None ELSE Number(temperature.val)

-----------------------------------------------------------------------------
(* The inputs the model draws.                                             *)

AdcCounts == (-MaxCounts)..MaxCounts

Pulldowns == (1..MaxPulldown) \cup {RESISTANCE_OF_PULLDOWN}

FullScales == (1..MaxFullScale) \cup {U_12_MAX}

(* Resistances handed to the resolver: the halves from -1 to MaxKey + 1.   *)
Resistances == {Rational(n, 2) : n \in (-2)..(2 * MaxKey + 2)}

TableEntries == [key : 0..MaxKey, temp : 0..MaxTemp]

DistinctKeys(dict) ==
    \A i, j \in 1..Len(dict) : i # j => dict[i].key # dict[j].key

Tables ==
    UNION {{dict \in [1..n -> TableEntries] : DistinctKeys(dict)} : n \in 0..MaxTableLen}

TemperatureStrings == {Numeral(v) : v \in 0..MaxTemp} \cup {NotANumber}

ResistanceStrings == {Numeral(v) : v \in 0..MaxKey} \cup {NotANumber}

Items == [temperature_str : TemperatureStrings, resistance_str : ResistanceStrings]

DistinctTemperatureStrings(items) ==
    \A i, j \in 1..Len(items) : i # j => items[i].temperature_str # items[j].temperature_str

Assets ==
    {[json |-> "invalid", items |-> <<>>], [json |-> "array", items |-> <<>>]}
    \cup {[json |-> "object", items |-> items] :
            items \in UNION {{it \in [1..n -> Items] : DistinctTemperatureStrings(it)}
                                : n \in 0..MaxEntries}}

-----------------------------------------------------------------------------
(* States before any call.                                                 *)

NoCountsCall ==
    [called |-> FALSE, adc_counts |-> 0, pulldown_resistance |-> 0,
     max_adc_count |-> 0, out |-> RaisedRational]

NoResolveCall == [called |-> FALSE, resistance |-> Rational(0, 1), out |-> Raised]

NoConverter ==
    [state |-> "none", table |-> <<>>, pulldown_resistance |-> 0, max_adc_count |-> 0]

NoConvertCall == [called |-> FALSE, adc_counts |-> 0, out |-> None]

EmptyAsset == [json |-> "object", items |-> <<>>]

(* A direct call of _counts_to_resistance: it reads its three arguments   *)
(* and assigns nothing but its result.                                     *)
CallCountsToResistance(adc_counts, pulldown_resistance, max_adc_count) ==
    /\ lastCounts' =
           [called |-> TRUE, adc_counts |-> adc_counts,
            pulldown_resistance |-> pulldown_resistance,
            max_adc_count |-> max_adc_count,
            out |-> counts_to_resistance(adc_counts, pulldown_resistance, max_adc_count)]
    /\ UNCHANGED <<table, lastResolve, asset, converter, lastConvert>>
    /\ UNCHANGED <<wiringVars, mqttVars, runVars>>

(* A direct call of _thermistor_temperature_resistance on the table.       *)
CallThermistorTemperatureResistance(resistance) ==
    /\ lastResolve' =
           [called |-> TRUE, resistance |-> resistance,
            out |-> thermistor_temperature_resistance(resistance, table)]
    /\ UNCHANGED <<lastCounts, table, asset, converter, lastConvert>>
    /\ UNCHANGED <<wiringVars, mqttVars, runVars>>

(* thermistor.py: create_adc_counts_to_temperature_converter.  The table   *)
(* is read before the closure is made and outside any try: a loader that   *)
(* raises leaves no converter.                                             *)
create_adc_counts_to_temperature_converter(pulldown_resistance, max_adc_count) ==
    /\ converter.state = "none"
    /\ LET loaded == read_resistance_to_temperature(asset)
       IN  converter' =
               IF loaded.raised
               THEN [state |-> "raised", table |-> <<>>,
                     pulldown_resistance |-> pulldown_resistance,
                     max_adc_count |-> max_adc_count]
               ELSE [state |-> "built", table |-> loaded.table,
                     pulldown_resistance |-> pulldown_resistance,
                     max_adc_count |-> max_adc_count]
    /\ UNCHANGED <<lastCounts, table, lastResolve, asset, lastConvert>>
    /\ UNCHANGED <<wiringVars, mqttVars, runVars>>

(* A call of the converter that was returned.                              *)
CallConverter(adc_counts) ==
    /\ converter.state = "built"
    /\ lastConvert' =
           [called |-> TRUE, adc_counts |-> adc_counts,
            out |-> adc_counts_to_temperature(adc_counts, converter.table,
                                              converter.pulldown_resistance,
                                              converter.max_adc_count)]
    /\ UNCHANGED <<lastCounts, table, lastResolve, asset, converter>>
    /\ UNCHANGED <<wiringVars, mqttVars, runVars>>

-----------------------------------------------------------------------------
(* The wiring variables while the thermistor pipeline alone is studied.    *)
NoPayload ==
    [json |-> "object", version |-> "1",
     fans |-> [present |-> TRUE, map |-> <<>>],
     thermistors |-> [present |-> TRUE, map |-> <<>>]]

NoValidation ==
    [kind |-> "none", message |-> "", errors |-> <<>>, validated |-> <<>>,
     fans |-> <<>>, thermistors |-> <<>>]

NoHardware ==
    [state |-> "none", pcb_revision |-> "", platform |-> "",
     fan_controllers |-> <<>>, temperature_readers |-> <<>>,
     create_interface_calls |-> 0, hardware_io |-> <<>>]

WiringIdle ==
    /\ payload = NoPayload
    /\ validation = NoValidation
    /\ hardware = NoHardware

(* The MQTT variables before any callback or cycle has run.               *)
NoInterface == [fan_controllers |-> <<>>, temperature_readers |-> <<>>]

NoMessage ==
    [handled |-> FALSE, topic |-> <<>>,
     payload |-> [numeric |-> FALSE, val |-> [num |-> 0, den |-> 1]],
     broken |-> {}, invoked |-> <<>>, commands |-> <<>>, published |-> <<>>,
     error |-> FALSE]

LoopStart ==
    [pc |-> "cycle", cycles |-> 0, reason |-> "", failed_before |-> FALSE,
     offline |-> FALSE]

NoCycle ==
    [ran |-> FALSE, readings |-> <<>>, published |-> <<>>, error |-> FALSE,
     after_failure |-> FALSE]

MqttIdle ==
    /\ mqttInterface = NoInterface
    /\ lastMessage = NoMessage
    /\ loop = LoopStart
    /\ lastCycle = NoCycle

(* The variables of run before run is entered.                             *)
NoOptions ==
    [platform |-> "BeagleBoneBlack", pcb_revision |-> "v1.0.0",
     enable_web_api |-> FALSE, enable_mqtt_api |-> FALSE, fails |-> "none"]

NotRunning ==
    [pc |-> "idle", hardware_interface |-> "None", jobs |-> <<>>,
     scheduler_started |-> FALSE, controller_apis |-> <<>>, ran |-> <<>>,
     stopped |-> <<>>, stop_event |-> FALSE, waited |-> FALSE, raised |-> FALSE]

NoLedWrites == [by_run |-> <<>>, counters |-> <<>>, toggled |-> <<>>]

RunIdle ==
    /\ cli = NoOptions
    /\ rn = NotRunning
    /\ leds = NoLedWrites

(* The resistance converter alone.                                         *)

InitCounts ==
    /\ lastCounts = NoCountsCall
    /\ table = <<>>
    /\ lastResolve = NoResolveCall
    /\ asset = EmptyAsset
    /\ converter = NoConverter
    /\ lastConvert = NoConvertCall
    /\ WiringIdle
    /\ MqttIdle
    /\ RunIdle

NextCounts ==
    \E a \in AdcCounts \cup {U_12_MAX \div 2}, p \in Pulldowns, m \in FullScales :
        CallCountsToResistance(a, p, m)

SpecCounts == InitCounts /\ [][NextCounts]_vars

(* The temperature resolver alone, on every table within the bounds.       *)

InitResolve ==
    /\ lastCounts = NoCountsCall
    /\ table \in Tables
    /\ lastResolve = NoResolveCall
    /\ asset = EmptyAsset
    /\ converter = NoConverter
    /\ lastConvert = NoConvertCall
    /\ WiringIdle
    /\ MqttIdle
    /\ RunIdle

NextResolve == \E r \in Resistances : CallThermistorTemperatureResistance(r)

SpecResolve == InitResolve /\ [][NextResolve]_vars

(* The pipeline: an asset, the converter built from it, its calls.         *)

InitThermistor ==
    /\ lastCounts = NoCountsCall
    /\ table = <<>>
    /\ lastResolve = NoResolveCall
    /\ asset \in Assets
    /\ converter = NoConverter
    /\ lastConvert = NoConvertCall
    /\ WiringIdle
    /\ MqttIdle
    /\ RunIdle

NextThermistor ==
    \/ \E p \in {MaxPulldown, RESISTANCE_OF_PULLDOWN}, m \in {MaxFullScale, U_12_MAX} :
           create_adc_counts_to_temperature_converter(p, m)
    \/ \E a \in AdcCounts : CallConverter(a)

SpecThermistor == InitThermistor /\ [][NextThermistor]_vars

-----------------------------------------------------------------------------
(* Properties of the conversion pipeline.                                  *)

(* The stage of adc_counts_to_temperature that fails on a call: the        *)
(* division for adc_counts = 0, the lookup on a table without keys.        *)
ResistanceStageFails == lastConvert.adc_counts = 0

LookupStageFails == converter.table = <<>>

(* C1: for every integer adc_counts the converter never raises; a failure  *)
(* of the resistance stage or of the lookup stage yields None, and         *)
(* adc_counts = 0 yields None, never a number.                             *)
C1_ConverterNeverRaises ==
    lastConvert.called =>
        /\ lastConvert.out.kind # "raise"
        /\ (ResistanceStageFails \/ LookupStageFails) => lastConvert.out = None
        /\ lastConvert.adc_counts = 0 => lastConvert.out.kind # "value"

C1_Witness ==
    /\ lastConvert.called
    /\ lastConvert.adc_counts = 0
    /\ converter.table # <<>>
    /\ lastConvert.out = None

(* The distance of a key to a resistance num/den, scaled by |den|.         *)
Distance(key, resistance) == Abs(key * resistance.den - resistance.num)

Nearest(dict, i, resistance) ==
    \A j \in 1..Len(dict) :
        Distance(dict[i].key, resistance) <= Distance(dict[j].key, resistance)

ExampleTable ==
    <<[key |-> 50000, temp |-> 0], [key |-> 10000, temp |-> 25], [key |-> 1000, temp |-> 100]>>

(* C2: on a non-empty table the resolver returns the temperature of a key  *)
(* whose absolute difference to the input is minimal over all keys; on     *)
(* {50000:0, 10000:25, 1000:100} the inputs 10000, 10001 and 30000 resolve *)
(* to 25, 25 and 0.                                                        *)
C2_NearestKeyTemperature ==
    /\ (lastResolve.called /\ table # <<>>) =>
           /\ ~lastResolve.out.raised
           /\ \E i \in 1..Len(table) :
                  /\ Nearest(table, i, lastResolve.resistance)
                  /\ lastResolve.out.val = table[i].temp
    /\ thermistor_temperature_resistance(Rational(10000, 1), ExampleTable) = Returned(25)
    /\ thermistor_temperature_resistance(Rational(10001, 1), ExampleTable) = Returned(25)
    /\ thermistor_temperature_resistance(Rational(30000, 1), ExampleTable) = Returned(0)

C2_Witness ==
    /\ lastResolve.called
    /\ Len(table) = 3
    /\ Nearest(table, 3, lastResolve.resistance)
    /\ ~Nearest(table, 1, lastResolve.resistance)
    /\ ~Nearest(table, 2, lastResolve.resistance)
    /\ table[3].temp \notin {table[1].temp, table[2].temp}
    /\ lastResolve.out = Returned(table[3].temp)

(* The input is equidistant from two keys and no key is nearer.            *)
Tie(dict, resistance) ==
    \E i, j \in 1..Len(dict) :
        i # j /\ Nearest(dict, i, resistance) /\ Nearest(dict, j, resistance)

LowestNearest(dict, resistance) ==
    CHOOSE i \in 1..Len(dict) :
        /\ Nearest(dict, i, resistance)
        /\ \A j \in 1..Len(dict) : Nearest(dict, j, resistance) => dict[i].key <= dict[j].key

FirstNearest(dict, resistance) ==
    CHOOSE i \in 1..Len(dict) :
        /\ Nearest(dict, i, resistance)
        /\ \A j \in 1..Len(dict) : Nearest(dict, j, resistance) => i <= j

(* C3, as claimed: on a tie the resolver returns the temperature of the    *)
(* lowest resistance key, whatever the iteration order of the keys.        *)
C3_LowestKeyWins ==
    (lastResolve.called /\ Tie(table, lastResolve.resistance)) =>
        lastResolve.out = Returned(table[LowestNearest(table, lastResolve.resistance)].temp)

(* C3, amended: on a tie the resolver returns the temperature of the       *)
(* equidistant key that comes first in the table's iteration order.        *)
C3_FirstKeyWins ==
    (lastResolve.called /\ Tie(table, lastResolve.resistance)) =>
        lastResolve.out = Returned(table[FirstNearest(table, lastResolve.resistance)].temp)

C3_Witness ==
    /\ lastResolve.called
    /\ Tie(table, lastResolve.resistance)
    /\ LowestNearest(table, lastResolve.resistance) # FirstNearest(table, lastResolve.resistance)
    /\ table[LowestNearest(table, lastResolve.resistance)].temp
           # table[FirstNearest(table, lastResolve.resistance)].temp
    /\ lastResolve.out = Returned(table[FirstNearest(table, lastResolve.resistance)].temp)

(* The resistance a call of the converter computed is negative, or lies    *)
(* outside the range of the table's keys.                                  *)
ConvertedResistance ==
    counts_to_resistance(lastConvert.adc_counts, converter.pulldown_resistance,
                         converter.max_adc_count).val

IsNegative(q) == q.num * q.den < 0

AboveAllKeys(q, dict) ==
    \A i \in 1..Len(dict) : (q.num - dict[i].key * q.den) * q.den > 0

(* C4: no interpolation: a number the pipeline returns is one of the       *)
(* temperatures stored in the loaded table, also when the computed         *)
(* resistance is negative or outside the range of the table's keys.        *)
C4_NoInterpolation ==
    (lastConvert.called /\ lastConvert.out.kind = "value") =>
        lastConvert.out.val \in Temperatures(converter.table)

C4_Witness ==
    /\ lastConvert.called
    /\ lastConvert.out.kind = "value"
    /\ Len(converter.table) = 2
    /\ converter.table[1].temp # converter.table[2].temp
    /\ IsNegative(ConvertedResistance)

C4_WitnessAbove ==
    /\ lastConvert.called
    /\ lastConvert.out.kind = "value"
    /\ Len(converter.table) = 2
    /\ AboveAllKeys(ConvertedResistance, converter.table)

(* C5: for adc_counts, pulldown and max_adc_count all positive the result  *)
(* is pulldown * (max_adc_count / adc_counts) - pulldown, that is the      *)
(* fraction (pulldown * max_adc_count - pulldown * adc_counts) /           *)
(* adc_counts; it is 10000 for (2048, 10000, 4096).                         *)
C5_ResistanceFormula ==
    /\ (/\ lastCounts.called
        /\ lastCounts.adc_counts > 0
        /\ lastCounts.pulldown_resistance > 0
        /\ lastCounts.max_adc_count > 0) =>
           /\ ~lastCounts.out.raised
           /\ lastCounts.out.val =
                  Rational(lastCounts.pulldown_resistance * lastCounts.max_adc_count
                             - lastCounts.pulldown_resistance * lastCounts.adc_counts,
                           lastCounts.adc_counts)
    /\ ~counts_to_resistance(2048, 10000, 4096).raised
    /\ SameNumber(counts_to_resistance(2048, 10000, 4096).val, Rational(10000, 1))

C5_Witness ==
    /\ lastCounts.called
    /\ lastCounts.adc_counts = 2048
    /\ lastCounts.pulldown_resistance = 10000
    /\ lastCounts.max_adc_count = 4096
    /\ ~lastCounts.out.raised
    /\ SameNumber(lastCounts.out.val, Rational(10000, 1))

(* C6, as claimed: the loader multiplies every source resistance (in       *)
(* kilo-ohms) by 1000: the keys of the table are exactly the source values *)
(* times 1000.                                                             *)
C6_KeysAreOhms ==
    converter.state = "built" =>
        /\ \A i \in 1..Len(asset.items) :
               HasKey(converter.table, 1000 * asset.items[i].resistance_str.val)
        /\ \A j \in 1..Len(converter.table) :
               \E i \in 1..Len(asset.items) :
                   converter.table[j].key = 1000 * asset.items[i].resistance_str.val

(* The asset cannot be parsed, or one of its entries is no number.         *)
Malformed(lookup_json) ==
    \/ lookup_json.json # "object"
    \/ \E i \in 1..Len(lookup_json.items) :
           \/ ~lookup_json.items[i].temperature_str.numeric
           \/ ~lookup_json.items[i].resistance_str.numeric

(* C7: on an asset that cannot be parsed, or with an entry that is no      *)
(* number, building the converter raises: no converter is returned.        *)
C7_MalformedAssetRaises ==
    (Malformed(asset) /\ converter.state # "none") =>
        /\ converter.state = "raised"
        /\ ~lastConvert.called

C7_Witness ==
    /\ asset.json = "object"
    /\ Len(asset.items) = 2
    /\ asset.items[1].temperature_str.numeric /\ asset.items[1].resistance_str.numeric
    /\ ~asset.items[2].resistance_str.numeric
    /\ converter.state = "raised"

-----------------------------------------------------------------------------
(* board_interface_types.py: the enumerations, by their values.            *)

RackLocation == {"intake_lower", "intake_upper", "exhaust_lower", "exhaust_upper"}

HardwarePlatform == {"BeagleBoneBlack"}

PCBRevision == {"v1.0.0"}

WireMappingVersion == {"1"}

(* The board markings the program's own wirings name (orvcli.py's default  *)
(* and the builtin mapping of board_interface_types.py).                   *)
BoardMarkingActiveLowPWM == {"ONBOARD", "PN2", "PN3", "PN5"}

BoardMarkingThermistorPin == {"TMP0", "TMP1", "TMP4", "TMP5"}

(* Bounds of the wiring model.                                             *)

MaxFanMarks == 2            \* markings in one fans list of a valid wiring

MaxThermistorMarks == 1     \* markings in one thermistors list of a valid wiring

MaxRawMarks == 1            \* markings in one list of an unvalidated wiring

-----------------------------------------------------------------------------
(* A JSON object / Dict[RackLocation, List[marking]] is a sequence of      *)
(* [location, markings] items with distinct locations, in their order.     *)

Lists(marks, maxLen) == UNION {[1..n -> marks] : n \in 0..maxLen}

DistinctLocations(map) ==
    \A i, j \in 1..Len(map) : i # j => map[i].location # map[j].location

Maps(locations, marks, maxLen) ==
    UNION {{map \in [1..n -> [location : locations, markings : Lists(marks, maxLen)]] :
                DistinctLocations(map)} : n \in 0..Cardinality(locations)}

Present(map) == [present |-> TRUE, map |-> map]

Absent == [present |-> FALSE, map |-> <<>>]

(* pydantic's validation of one field of WireMapping.                      *)
VersionValid(data) == data.version \in WireMappingVersion

SectionValid(section, markings) ==
    /\ section.present
    /\ \A i \in 1..Len(section.map) :
           /\ section.map[i].location \in RackLocation
           /\ \A k \in 1..Len(section.map[i].markings) :
                  section.map[i].markings[k] \in markings

FieldValid(data, field) ==
    CASE field = "version"     -> VersionValid(data)
      [] field = "fans"        -> SectionValid(data.fans, BoardMarkingActiveLowPWM)
      [] field = "thermistors" -> SectionValid(data.thermistors, BoardMarkingThermistorPin)

WireMappingFields == <<"version", "fans", "thermistors">>

(* The fields of `fields`, in order, that fail.                            *)
RECURSIVE Failing(_, _, _)
Failing(data, fields, i) ==
    IF i > Len(fields)
    THEN <<>>
    ELSE (IF FieldValid(data, fields[i]) THEN <<>> ELSE <<fields[i]>>)
             \o Failing(data, fields, i + 1)

Model(data, validated) ==
    [kind |-> "model", message |-> "", errors |-> <<>>, validated |-> validated,
     fans |-> data.fans.map, thermistors |-> data.thermistors.map]

ValidationError(errors, validated) ==
    [kind |-> "validation_error", message |-> "", errors |-> errors,
     validated |-> validated, fans |-> <<>>, thermistors |-> <<>>]

(* A validation that stops at the first field that fails.                  *)
RECURSIVE FirstFailing(_, _, _)
FirstFailing(data, fields, i) ==
    IF i > Len(fields)
    THEN 0
    ELSE IF FieldValid(data, fields[i]) THEN FirstFailing(data, fields, i + 1) ELSE i

WireMappingFailFast(data) ==
    LET first == FirstFailing(data, WireMappingFields, 1)
    IN  IF first = 0
        THEN Model(data, WireMappingFields)
        ELSE ValidationError(<<WireMappingFields[first]>>,
                             SubSeq(WireMappingFields, 1, first))

(* board_interface_types.py: the WireMapping constructor.  A BaseModel      *)
(* validates every declared field, in the order of declaration, and raises *)
(* one ValidationError that lists the failures of all of them; the class   *)
(* declares no validator of its own, so nothing compares the markings of   *)
(* one list or location with those of another.                             *)
WireMapping(data) ==
    LET errors == Failing(data, WireMappingFields, 1)
    IN  IF errors = <<>>
        THEN Model(data, WireMappingFields)
        ELSE ValidationError(errors, WireMappingFields)

BadParameter(message, errors, validated) ==
    [kind |-> "bad_parameter", message |-> message, errors |-> errors,
     validated |-> validated, fans |-> <<>>, thermistors |-> <<>>]

TypeError ==
    [kind |-> "type_error", message |-> "", errors |-> <<>>, validated |-> <<>>,
     fans |-> <<>>, thermistors |-> <<>>]

(* orvcli.py: validate_pydantic_json.  json.loads raises JSONDecodeError   *)
(* on an invalid string; the constructor call, which unpacks the value as  *)
(* keyword arguments, raises TypeError, which no except clause catches,    *)
(* on a value that is no mapping.                                          *)
validate_pydantic_json(value) ==
    IF value.json = "invalid"
    THEN BadParameter("Invalid JSON", <<>>, <<>>)
    ELSE IF value.json # "object"
         THEN TypeError
         ELSE LET made == WireMapping(value)
              IN  IF made.kind = "validation_error"
                  THEN BadParameter("Pydantic validation failed",
                                    made.errors, made.validated)
                  ELSE made

-----------------------------------------------------------------------------
(* host_hardware/interfaces/beaglebone_black.py is not among the sources:  *)
(* the registry and create_interface follow the specification's sections   *)
(* 4.5 and 4.6: each marking of the wiring is resolved through the         *)
(* registry, eagerly, into one operation, location by location and in list *)
(* order; a marking the registry lacks fails the construction; no hardware *)
(* I/O happens during construction.  The steps of section 4.6 compare no   *)
(* marking with another.                                                   *)

BBB_V100_BOARD_MARKINGS_TO_PINS ==
    [marking \in BoardMarkingActiveLowPWM \cup BoardMarkingThermistorPin |->
        [board |-> "BBB_V100", pin |-> marking]]

Resolvable(board_marking_lookup, map) ==
    \A i \in 1..Len(map) : \A k \in 1..Len(map[i].markings) :
        map[i].markings[k] \in DOMAIN board_marking_lookup

Resolve(board_marking_lookup, map) ==
    [i \in 1..Len(map) |->
        [location |-> map[i].location,
         operations |-> [k \in 1..Len(map[i].markings) |->
                            board_marking_lookup[map[i].markings[k]]]]]

create_interface(board_marking_lookup, wire_mapping) ==
    IF /\ Resolvable(board_marking_lookup, wire_mapping.fans)
       /\ Resolvable(board_marking_lookup, wire_mapping.thermistors)
    THEN [raised |-> FALSE,
          fan_controllers |-> Resolve(board_marking_lookup, wire_mapping.fans),
          temperature_readers |-> Resolve(board_marking_lookup, wire_mapping.thermistors)]
    ELSE [raised |-> TRUE, fan_controllers |-> <<>>, temperature_readers |-> <<>>]

-----------------------------------------------------------------------------
(* board_interfaces.py: create_hardware_interface.                         *)

Unsupported(pcb_revision, platform) ==
    [state |-> "raised", pcb_revision |-> pcb_revision, platform |-> platform,
     fan_controllers |-> <<>>, temperature_readers |-> <<>>,
     create_interface_calls |-> 0, hardware_io |-> <<>>]

Delegated(pcb_revision, platform, wire_mapping) ==
    LET made == create_interface(BBB_V100_BOARD_MARKINGS_TO_PINS, wire_mapping)
    IN  [state |-> IF made.raised THEN "raised" ELSE "built",
         pcb_revision |-> pcb_revision, platform |-> platform,
         fan_controllers |-> made.fan_controllers,
         temperature_readers |-> made.temperature_readers,
         create_interface_calls |-> 1, hardware_io |-> <<>>]

(* The test of the pair with `or` in place of `and`.                       *)
create_hardware_interface_either(pcb_revision, platform, wire_mapping) ==
    IF pcb_revision = "v1.0.0" \/ platform = "BeagleBoneBlack"
    THEN Delegated(pcb_revision, platform, wire_mapping)
    ELSE Unsupported(pcb_revision, platform)

(*   if pcb_revision == PCBRevision.v100                                   *)
(*           and platform == HardwarePlatform.beaglebone_black:            *)
(*       return beaglebone_black.create_interface(...)                     *)
(*   else:                                                                 *)
(*       raise ValueError(...)                                             *)
create_hardware_interface(pcb_revision, platform, wire_mapping) ==
    IF pcb_revision = "v1.0.0" /\ platform = "BeagleBoneBlack"
    THEN Delegated(pcb_revision, platform, wire_mapping)
    ELSE Unsupported(pcb_revision, platform)

-----------------------------------------------------------------------------
(* The wirings the model draws.  A valid wiring names known locations and  *)
(* markings only; an unvalidated one may also name a location or a marking *)
(* no enumeration holds, lack a section or the version, or be no object.   *)

ModelLocations == {"intake_lower", "intake_upper"}

ValidWirings ==
    [json : {"object"}, version : {"1", "2"},
     fans : {Present(m) : m \in Maps(ModelLocations, {"PN2", "PN5"}, MaxFanMarks)},
     thermistors :
         {Present(m) : m \in Maps(ModelLocations, {"TMP0", "TMP1"}, MaxThermistorMarks)}]

RawWirings ==
    {[json |-> "invalid", version |-> "1", fans |-> Absent, thermistors |-> Absent],
     [json |-> "array", version |-> "1", fans |-> Absent, thermistors |-> Absent]}
    \cup
    [json : {"object"}, version : {"1", "2", "absent"},
     fans : {Absent} \cup
            {Present(m) : m \in Maps({"intake_lower", "attic"}, {"PN2", "PN9"}, MaxRawMarks)},
     thermistors : {Absent} \cup
            {Present(m) : m \in Maps({"intake_lower", "attic"}, {"TMP0", "TMP9"}, MaxRawMarks)}]

(* The (revision, platform) pairs tried: the members of the enumerations   *)
(* and, for each, a value that is none of its members.                     *)
Revisions == PCBRevision \cup {"v2.0.0"}

Platforms == HardwarePlatform \cup {"RaspberryPi"}

(* click runs the option's callback on the value given.                    *)
ValidateWireMapping ==
    /\ validation.kind = "none"
    /\ validation' = validate_pydantic_json(payload)
    /\ UNCHANGED <<payload, hardware>>
    /\ UNCHANGED <<thermVars, mqttVars, runVars>>

(* The call of create_hardware_interface on the validated wiring.          *)
CreateHardwareInterface(pcb_revision, platform) ==
    /\ validation.kind = "model"
    /\ hardware.state = "none"
    /\ hardware' = create_hardware_interface(pcb_revision, platform, validation)
    /\ UNCHANGED <<payload, validation>>
    /\ UNCHANGED <<thermVars, mqttVars, runVars>>

ThermistorIdle ==
    /\ lastCounts = NoCountsCall
    /\ table = <<>>
    /\ lastResolve = NoResolveCall
    /\ asset = EmptyAsset
    /\ converter = NoConverter
    /\ lastConvert = NoConvertCall

InitWiring ==
    /\ ThermistorIdle
    /\ payload \in ValidWirings \cup RawWirings
    /\ validation = NoValidation
    /\ hardware = NoHardware
    /\ MqttIdle
    /\ RunIdle

NextWiring ==
    \/ ValidateWireMapping
    \/ \E r \in Revisions, p \in Platforms : CreateHardwareInterface(r, p)

SpecWiring == InitWiring /\ [][NextWiring]_vars

-----------------------------------------------------------------------------
(* Properties of the wiring configuration and of the builder.              *)

DuplicateIn(map) ==
    \E i, j \in 1..Len(map) :
        \E k \in 1..Len(map[i].markings), l \in 1..Len(map[j].markings) :
            /\ <<i, k>> # <<j, l>>
            /\ map[i].markings[k] = map[j].markings[l]

(* The same board marking appears more than once in the wiring: in two     *)
(* locations, or twice in one list.                                        *)
HasDuplicateMarking(value) ==
    /\ value.json = "object"
    /\ DuplicateIn(value.fans.map) \/ DuplicateIn(value.thermistors.map)

(* C8, as claimed: a wiring in which a board marking appears more than     *)
(* once is rejected at construction: no interface, full or partial, is     *)
(* ever returned for it.                                                   *)
C8_DuplicateMarkingRejected ==
    HasDuplicateMarking(payload) => hardware.state # "built"

(* C8, the validation alone: the WireMapping is not constructed.           *)
C8_ValidationRejectsDuplicate ==
    HasDuplicateMarking(payload) => validation.kind # "model"

Supported(pcb_revision, platform) ==
    pcb_revision = "v1.0.0" /\ platform = "BeagleBoneBlack"

(* C9: create_hardware_interface returns an interface only for the pair    *)
(* (v1.0.0, BeagleBoneBlack); for every other pair it raises, without      *)
(* calling create_interface and without any hardware I/O.                  *)
C9_OnlySupportedPair ==
    hardware.state # "none" =>
        /\ hardware.state = "built" => Supported(hardware.pcb_revision, hardware.platform)
        /\ ~Supported(hardware.pcb_revision, hardware.platform) =>
               /\ hardware.state = "raised"
               /\ hardware.create_interface_calls = 0
               /\ hardware.hardware_io = <<>>
               /\ hardware.fan_controllers = <<>>
               /\ hardware.temperature_readers = <<>>

C9_Witness ==
    /\ hardware.state = "raised"
    /\ hardware.pcb_revision = "v1.0.0"
    /\ hardware.platform = "RaspberryPi"
    /\ hardware.create_interface_calls = 0
    /\ payload.fans.map # <<>>

C9_WitnessSupported ==
    /\ hardware.state = "built"
    /\ hardware.create_interface_calls = 1
    /\ hardware.fan_controllers # <<>>

Validated(field) == \E i \in 1..Len(validation.validated) : validation.validated[i] = field

Reported(field) == \E i \in 1..Len(validation.errors) : validation.errors[i] = field

VersionNotOne == payload.json = "object" /\ payload.version # "1"

(* C10, as claimed: a wiring whose version is not "1" is rejected before   *)
(* the fans and thermistors sections are validated, and the failure        *)
(* reported is the version failure whatever the other fields hold.         *)
C10_VersionRejectedFirst ==
    (VersionNotOne /\ validation.kind # "none") =>
        /\ validation.kind = "bad_parameter"
        /\ validation.errors = <<"version">>
        /\ ~Validated("fans")
        /\ ~Validated("thermistors")

(* C10, amended: a wiring (a JSON object) whose version is not "1" is      *)
(* rejected and the version failure is the first one reported; the fans    *)
(* and thermistors sections are validated in the same pass, and the        *)
(* failure of either is reported with the version failure.                 *)
C10_VersionRejectedWithOthers ==
    (VersionNotOne /\ validation.kind # "none") =>
        /\ validation.kind = "bad_parameter"
        /\ validation.message = "Pydantic validation failed"
        /\ validation.errors # <<>>
        /\ validation.errors[1] = "version"
        /\ Validated("fans") /\ Validated("thermistors")
        /\ Reported("fans") <=> ~SectionValid(payload.fans, BoardMarkingActiveLowPWM)
        /\ Reported("thermistors")
               <=> ~SectionValid(payload.thermistors, BoardMarkingThermistorPin)
        /\ hardware.state = "none"

C10_Witness ==
    /\ payload.json = "object"
    /\ payload.version = "2"
    /\ payload.fans.present
    /\ ~SectionValid(payload.fans, BoardMarkingActiveLowPWM)
    /\ SectionValid(payload.thermistors, BoardMarkingThermistorPin)
    /\ validation.kind = "bad_parameter"
    /\ validation.errors = <<"version", "fans">>

-----------------------------------------------------------------------------
(* mqtt_interface.py: the on_message callback that make_on_message builds. *)

MaxPower == 3

DeviceId == "orv-1"

FanPins == {"PN2", "PN5"}

(* A message: the topic split on "/", and the decoded payload, a numeral   *)
(* (in halves) or a text float() refuses.                                  *)
Topics ==
    {<<DeviceId, "fan", location, "set">> :
        location \in ModelLocations \cup {"exhaust_lower", "attic"}}
    \cup {<<DeviceId, "fan", "intake_lower", "state">>,
          <<DeviceId, "temperature", "intake_lower", "set">>,
          <<DeviceId, "status">>,
          <<DeviceId, "fan", "intake_lower", "set", "now">>}

NotAFloat == [numeric |-> FALSE, val |-> Rational(0, 1)]

Payloads == {Numeral(Rational(n, 2)) : n \in -1..MaxPower} \cup {NotAFloat}

InRange(power) == 0 <= power.num /\ power.num <= power.den

(* FanController: the operation a marking resolves to.  The operations are *)
(* built in beaglebone_black.py, which is not among the sources; by the    *)
(* specification's section 4.6 an operation takes a drive power in [0, 1], *)
(* returns the commands it issued and rejects a power out of range with an *)
(* error, issuing none.  An operation whose pin is in `broken` fails at    *)
(* the hardware.                                                           *)
FanController(operation, drive_power, broken) ==
    IF operation.pin \in broken \/ ~InRange(drive_power)
    THEN [raised |-> TRUE, commands |-> <<>>]
    ELSE [raised |-> FALSE,
          commands |-> <<[pin |-> operation.pin, power |-> drive_power]>>]

(* dict.get: the value stored under the key, None (here the empty list,    *)
(* which `not controls` treats alike) when the key is absent.              *)
Get(dict, location) ==
    IF \E i \in 1..Len(dict) : dict[i].location = location
    THEN dict[CHOOSE i \in 1..Len(dict) : dict[i].location = location].operations
    ELSE <<>>

(*   list(itertools.chain.from_iterable(fn(power) for fn in controls))     *)
(* The generator calls the controllers one by one; the first that raises   *)
(* ends the iteration, the later ones are not called.                      *)
RECURSIVE Chain(_, _, _, _, _, _)
Chain(controls, power, broken, i, invoked, commands) ==
    IF i > Len(controls)
    THEN [raised |-> FALSE, invoked |-> invoked, commands |-> commands]
    ELSE LET call == FanController(controls[i], power, broken)
             calls == Append(invoked, [pin |-> controls[i].pin, power |-> power])
         IN  IF call.raised
             THEN [raised |-> TRUE, invoked |-> calls, commands |-> commands]
             ELSE Chain(controls, power, broken, i + 1, calls, commands \o call.commands)

(* Every controller called in its own try, a failure skipped.              *)
RECURSIVE ChainMasking(_, _, _, _, _, _)
ChainMasking(controls, power, broken, i, invoked, commands) ==
    IF i > Len(controls)
    THEN [raised |-> FALSE, invoked |-> invoked, commands |-> commands]
    ELSE LET call == FanController(controls[i], power, broken)
             calls == Append(invoked, [pin |-> controls[i].pin, power |-> power])
         IN  ChainMasking(controls, power, broken, i + 1, calls, commands \o call.commands)

Handled(msg, broken, invoked, commands, published, error) ==
    [handled |-> TRUE, topic |-> msg.topic, payload |-> msg.payload,
     broken |-> broken, invoked |-> invoked, commands |-> commands,
     published |-> published, error |-> error]

FanState(rack_location, power) ==
    [topic |-> <<DeviceId, "fan", rack_location, "state">>,
     payload |-> [power |-> power], retain |-> TRUE]

(* on_message with the failures of the controllers masked.                 *)
on_message_masking(orv_hardware_interface, msg, broken) ==
    LET topic_parts == msg.topic
        power == Float(msg.payload)
        controls == Get(orv_hardware_interface.fan_controllers, topic_parts[3])
        driven == ChainMasking(controls, power.val, broken, 1, <<>>, <<>>)
    IN  IF Len(topic_parts) # 4 \/ topic_parts[2] # "fan" \/ topic_parts[4] # "set"
        THEN Handled(msg, broken, <<>>, <<>>, <<>>, FALSE)
        ELSE IF topic_parts[3] \notin RackLocation \/ power.raised
        THEN Handled(msg, broken, <<>>, <<>>, <<>>, TRUE)
        ELSE IF controls = <<>>
        THEN Handled(msg, broken, <<>>, <<>>, <<>>, FALSE)
        ELSE Handled(msg, broken, driven.invoked, driven.commands,
                     <<FanState(topic_parts[3], power.val)>>, FALSE)

(*   try:                                                                  *)
(*       topic_parts = msg.topic.split("/")                                *)
(*       if len(topic_parts) != 4 or topic_parts[1] != "fan"               *)
(*               or topic_parts[3] != "set":                               *)
(*           return                                                        *)
(*       rack_location = RackLocation(rack_location_raw)                   *)
(*       power = float(msg.payload.decode())                               *)
(*       controls = orv_hardware_interface.fan_controllers.get(...)        *)
(*       if not controls:                                                  *)
(*           return                                                        *)
(*       _commands = list(itertools.chain.from_iterable(...))              *)
(*       client.publish(f"{device_id}/fan/{rack_location}/state", ...)     *)
(*   except Exception as e:                                                *)
(*       LOGGER.error(...)                                                 *)
(* The power is compared with no range anywhere in the callback.           *)
on_message(orv_hardware_interface, msg, broken) ==
    LET topic_parts == msg.topic
        power == Float(msg.payload)
        controls == Get(orv_hardware_interface.fan_controllers, topic_parts[3])
        driven == Chain(controls, power.val, broken, 1, <<>>, <<>>)
    IN  IF Len(topic_parts) # 4 \/ topic_parts[2] # "fan" \/ topic_parts[4] # "set"
        THEN Handled(msg, broken, <<>>, <<>>, <<>>, FALSE)
        ELSE IF topic_parts[3] \notin RackLocation \/ power.raised
        THEN Handled(msg, broken, <<>>, <<>>, <<>>, TRUE)
        ELSE IF controls = <<>>
        THEN Handled(msg, broken, <<>>, <<>>, <<>>, FALSE)
        ELSE IF driven.raised
        THEN Handled(msg, broken, driven.invoked, driven.commands, <<>>, TRUE)
        ELSE Handled(msg, broken, driven.invoked, driven.commands,
                     <<FanState(topic_parts[3], power.val)>>, FALSE)

(* The interfaces the callback is built over: create_interface's result    *)
(* for a wiring of fans.                                                   *)
FanInterfaces ==
    {[fan_controllers |-> made.fan_controllers,
      temperature_readers |-> made.temperature_readers] :
        made \in {create_interface(BBB_V100_BOARD_MARKINGS_TO_PINS,
                                   [fans |-> m, thermistors |-> <<>>]) :
                      m \in Maps(ModelLocations, FanPins, MaxFanMarks)}}

(* The broker delivers a message; the callback runs to its end.            *)
OnMessage ==
    /\ \E topic \in Topics, text \in Payloads, broken \in SUBSET FanPins :
          lastMessage' = on_message(mqttInterface,
                                    [topic |-> topic, payload |-> text], broken)
    /\ UNCHANGED <<mqttInterface, loop, lastCycle>>
    /\ UNCHANGED <<thermVars, wiringVars, runVars>>

InitFan ==
    /\ mqttInterface \in FanInterfaces
    /\ lastMessage = NoMessage
    /\ loop = LoopStart
    /\ lastCycle = NoCycle
    /\ ThermistorIdle
    /\ WiringIdle
    /\ RunIdle

NextFan == OnMessage

SpecFan == InitFan /\ [][NextFan]_vars

(* What the last message was.                                              *)
FanSet ==
    /\ lastMessage.handled
    /\ Len(lastMessage.topic) = 4
    /\ lastMessage.topic[2] = "fan"
    /\ lastMessage.topic[4] = "set"
    /\ lastMessage.topic[3] \in RackLocation
    /\ lastMessage.payload.numeric

Controls == Get(mqttInterface.fan_controllers, lastMessage.topic[3])

OutOfRange == ~InRange(lastMessage.payload.val)

(* C11: a /fan/<location>/set message whose power lies outside [0, 1] is   *)
(* rejected before anything is driven: it invokes no fan controller of the *)
(* location and publishes no new fan state.                                *)
C11_OutOfRangeInvokesNothing ==
    (FanSet /\ OutOfRange) =>
        /\ lastMessage.invoked = <<>>
        /\ lastMessage.published = <<>>

(* The first controller the callback fails at, one past the last if none.  *)
Fails(i) ==
    FanController(Controls[i], lastMessage.payload.val, lastMessage.broken).raised

FirstFailure ==
    IF \E i \in 1..Len(Controls) : Fails(i)
    THEN CHOOSE i \in 1..Len(Controls) : Fails(i) /\ \A j \in 1..(i - 1) : ~Fails(j)
    ELSE Len(Controls) + 1

Call(i) == [pin |-> Controls[i].pin, power |-> lastMessage.payload.val]

(* C12: a fan set message invokes the controllers of its location in list  *)
(* order, each with the message's power; when none fails every controller  *)
(* was invoked, their commands are concatenated in that order and the fan  *)
(* state is published; when one fails the callback fails there, and the    *)
(* fan state is not published.                                             *)
C12_AllOrNoPublish ==
    (FanSet /\ Controls # <<>>) =>
        IF FirstFailure > Len(Controls)
        THEN /\ lastMessage.invoked = [i \in 1..Len(Controls) |-> Call(i)]
             /\ lastMessage.commands = [i \in 1..Len(Controls) |-> Call(i)]
             /\ lastMessage.published =
                    <<FanState(lastMessage.topic[3], lastMessage.payload.val)>>
             /\ ~lastMessage.error
        ELSE /\ lastMessage.invoked = [i \in 1..FirstFailure |-> Call(i)]
             /\ lastMessage.published = <<>>
             /\ lastMessage.error

(* Two controllers, the second fails after the first was driven.           *)
C12_Witness ==
    /\ FanSet
    /\ Len(Controls) = 2
    /\ FirstFailure = 2
    /\ Len(lastMessage.invoked) = 2
    /\ Len(lastMessage.commands) = 1
    /\ lastMessage.published = <<>>

(* Two distinct controllers, both driven, the state published.             *)
C12_WitnessAll ==
    /\ FanSet
    /\ Len(Controls) = 2
    /\ Controls[1] # Controls[2]
    /\ FirstFailure = 3
    /\ Len(lastMessage.published) = 1

-----------------------------------------------------------------------------
(* mqtt_interface.py: the publish loop of run_open_rack_vent_mqtt.         *)

MaxReading == 2

MaxReaders == 2

MaxCycles == 2

ThermistorPins == {"TMP0", "TMP1"}

(* TemperatureReader: what a reader gives when called, a temperature, None *)
(* or an exception.  The readers are built in beaglebone_black.py, which   *)
(* is not among the sources; by the specification's section 4.6 a reader   *)
(* returns a floating-point temperature or None.  `readings` is what the   *)
(* sensor on each pin gives during one cycle.                              *)
ReaderOutcomes == {Number(v) : v \in 0..MaxReading} \cup {None, Propagated}

Readings == [ThermistorPins -> ReaderOutcomes]

TemperatureReader(operation, readings) == readings[operation.pin]

(*   [read_fn() for read_fn in readers]                                    *)
Samples(readers, readings) ==
    [k \in 1..Len(readers) |-> TemperatureReader(readers[k], readings)]

RECURSIVE Sum(_, _)
Sum(samples, k) == IF k = 0 THEN 0 ELSE samples[k].val + Sum(samples, k - 1)

(* statistics.mean over the list of samples: StatisticsError on an empty   *)
(* list, TypeError on a None; a reader that raises never lets the list be  *)
(* built.                                                                  *)
Mean(samples) ==
    IF samples = <<>> \/ \E k \in 1..Len(samples) : samples[k].kind # "value"
    THEN RaisedRational
    ELSE Returned(Rational(Sum(samples, Len(samples)), Len(samples)))

Temperature(location, average_temperature) ==
    [topic |-> <<DeviceId, "temperature", location>>,
     payload |-> [temperature |-> average_temperature], retain |-> TRUE]

Cycled(published, error, propagated) ==
    [published |-> published, error |-> error, propagated |-> propagated]

(*   for location, readers in ...temperature_readers.items():              *)
(*       average_temperature = statistics.mean([...])                      *)
(*       mqtt_client.publish(topic, payload, retain=True)                  *)
(* The first exception leaves the for loop.                                *)
RECURSIVE ForLocations(_, _, _, _)
ForLocations(temperature_readers, readings, i, published) ==
    IF i > Len(temperature_readers)
    THEN Cycled(published, FALSE, FALSE)
    ELSE LET average_temperature ==
                 Mean(Samples(temperature_readers[i].operations, readings))
         IN  IF average_temperature.raised
             THEN Cycled(published, TRUE, FALSE)
             ELSE ForLocations(temperature_readers, readings, i + 1,
                      Append(published, Temperature(temperature_readers[i].location,
                                                    average_temperature.val)))

(* The body of the while loop with no try around the for loop.             *)
publish_temperatures_unguarded(orv_hardware_interface, readings) ==
    LET done == ForLocations(orv_hardware_interface.temperature_readers, readings, 1, <<>>)
    IN  Cycled(done.published, done.error, done.error)

(*   try:                                                                  *)
(*       for location, readers in ...:                                     *)
(*           ...                                                           *)
(*   except Exception as e:                                                *)
(*       logging.error(f"Failed to publish temperatures: {e}")             *)
(* One try holds the whole for loop; what it catches does not leave the    *)
(* body of the while loop.                                                 *)
publish_temperatures(orv_hardware_interface, readings) ==
    ForLocations(orv_hardware_interface.temperature_readers, readings, 1, <<>>)

TemperatureInterfaces ==
    {[fan_controllers |-> made.fan_controllers,
      temperature_readers |-> made.temperature_readers] :
        made \in {create_interface(BBB_V100_BOARD_MARKINGS_TO_PINS,
                                   [fans |-> <<>>, thermistors |-> m]) :
                      m \in Maps(ModelLocations, ThermistorPins, MaxReaders)}}

(* One pass of the while loop up to the sleep.  An exception that left     *)
(* the body would end the loop through the finally clause.                 *)
PublishTemperatures ==
    /\ loop.pc = "cycle"
    /\ loop.cycles < MaxCycles
    /\ \E readings \in Readings :
          LET done == publish_temperatures(mqttInterface, readings)
          IN  /\ lastCycle' = [ran |-> TRUE, readings |-> readings,
                               published |-> done.published, error |-> done.error,
                               after_failure |-> loop.failed_before]
              /\ loop' = IF done.propagated
                         THEN [loop EXCEPT !.pc = "stopped", !.reason = "Exception",
                                           !.cycles = @ + 1, !.offline = TRUE]
                         ELSE [loop EXCEPT !.pc = "sleep", !.cycles = @ + 1,
                                           !.failed_before = @ \/ done.error]
    /\ UNCHANGED <<mqttInterface, lastMessage>>
    /\ UNCHANGED <<thermVars, wiringVars, runVars>>

(* time.sleep(publish_interval) returns.                                   *)
Sleep ==
    /\ loop.pc = "sleep"
    /\ loop' = [loop EXCEPT !.pc = "cycle"]
    /\ UNCHANGED <<mqttInterface, lastMessage, lastCycle>>
    /\ UNCHANGED <<thermVars, wiringVars, runVars>>

(* KeyboardInterrupt reaches the loop: the status goes offline and the     *)
(* client is disconnected.                                                 *)
KeyboardInterrupt ==
    /\ loop.pc \in {"cycle", "sleep"}
    /\ loop' = [loop EXCEPT !.pc = "stopped", !.reason = "KeyboardInterrupt",
                            !.offline = TRUE]
    /\ UNCHANGED <<mqttInterface, lastMessage, lastCycle>>
    /\ UNCHANGED <<thermVars, wiringVars, runVars>>

InitLoop ==
    /\ mqttInterface \in TemperatureInterfaces
    /\ lastMessage = NoMessage
    /\ loop = LoopStart
    /\ lastCycle = NoCycle
    /\ ThermistorIdle
    /\ WiringIdle
    /\ RunIdle

NextLoop == PublishTemperatures \/ Sleep \/ KeyboardInterrupt

SpecLoop == InitLoop /\ [][NextLoop]_vars

(* The readers of the i-th location all gave a number in the last cycle,   *)
(* and there is at least one.                                              *)
Readable(i) ==
    LET readers == mqttInterface.temperature_readers[i].operations
    IN  /\ readers # <<>>
        /\ \A k \in 1..Len(readers) : lastCycle.readings[readers[k].pin].kind = "value"

MeanOf(i) ==
    LET readers == mqttInterface.temperature_readers[i].operations
    IN  Mean(Samples(readers, lastCycle.readings)).val

PublishedFor(i) ==
    \E n \in 1..Len(lastCycle.published) :
        lastCycle.published[n] =
            Temperature(mqttInterface.temperature_readers[i].location, MeanOf(i))

FailedRead ==
    /\ lastCycle.ran
    /\ \E i \in 1..Len(mqttInterface.temperature_readers) :
          LET readers == mqttInterface.temperature_readers[i].operations
          IN  \E k \in 1..Len(readers) :
                 lastCycle.readings[readers[k].pin].kind # "value"

(* C13: a failed temperature read, a reader that raises or returns None,   *)
(* never ends the publish loop: the loop stops on KeyboardInterrupt only,  *)
(* after a cycle with a failed read it is at its sleep or past it, and     *)
(* every temperature published in a cycle is for a location whose readers  *)
(* all gave numbers, so no missing sample counts as zero degrees.          *)
C13_FailedReadKeepsLoop ==
    /\ loop.pc = "stopped" => loop.reason = "KeyboardInterrupt"
    /\ (FailedRead /\ loop.reason = "") => loop.pc \in {"sleep", "cycle"}
    /\ lastCycle.ran =>
          \A n \in 1..Len(lastCycle.published) :
             \E i \in 1..Len(mqttInterface.temperature_readers) :
                /\ Readable(i)
                /\ lastCycle.published[n] =
                       Temperature(mqttInterface.temperature_readers[i].location,
                                   MeanOf(i))

(* A cycle that ran after a cycle with a failure, itself with a None.      *)
C13_Witness ==
    /\ lastCycle.ran
    /\ lastCycle.after_failure
    /\ loop.cycles = 2
    /\ FailedRead
    /\ lastCycle.error
    /\ \E pin \in ThermistorPins : lastCycle.readings[pin].kind = "none"

(* C18: within one cycle the locations are independent: a location whose   *)
(* readers all return numbers has its mean published in that cycle, also   *)
(* when a reader of another location returned None or raised.              *)
C18_LocationsIndependent ==
    lastCycle.ran =>
        \A i \in 1..Len(mqttInterface.temperature_readers) :
            Readable(i) => PublishedFor(i)


-----------------------------------------------------------------------------
(* orvcli.py: toggling_job and run.                                        *)

MaxTicks == 3

(*   bool_callable(bool(next(state_count) % 2 == 0))                       *)
(* with the test for odd counts.                                           *)
toggling_job_odd(bool_callable, state_count) ==
    [led |-> bool_callable, value |-> (state_count % 2 = 1),
     state_count |-> state_count + 1]

(*   bool_callable(bool(next(state_count) % 2 == 0))                       *)
(* next() gives the count and advances it by one.                          *)
toggling_job(bool_callable, state_count) ==
    [led |-> bool_callable, value |-> (state_count % 2 = 0),
     state_count |-> state_count + 1]

(* The default of --wire-mapping-json.                                     *)
DefaultWireMapping ==
    [json |-> "object", version |-> "1",
     fans |-> Present(<<[location |-> "intake_lower", markings |-> <<"PN2", "PN5">>],
                        [location |-> "intake_upper", markings |-> <<"ONBOARD", "PN3">>]>>),
     thermistors |->
         Present(<<[location |-> "intake_lower", markings |-> <<"TMP0", "TMP1">>],
                   [location |-> "intake_upper", markings |-> <<"TMP4", "TMP5">>]>>)]

(* The one call of the try block that raises, if any: the collaborators    *)
(* run calls (the LED, the two control APIs, the scheduler) are outside    *)
(* the sources, and each of their calls may fail.                          *)
Failures ==
    {"none", "set_onboard_led", "create_web_api", "run_open_rack_vent_mqtt",
     "scheduler.start", "web.non_blocking_run", "mqtt.non_blocking_run"}

Options ==
    [platform : Platforms, pcb_revision : Revisions,
     enable_web_api : BOOLEAN, enable_mqtt_api : BOOLEAN, fails : Failures]

(* The body with no try: the exception is dropped and the body goes on.    *)
TryNothing(raised, next) == next

(* The try statement of run: an exception raised in its body is caught by  *)
(* `except Exception`, anything else goes on to the next statement.        *)
Try(raised, next) == IF raised THEN "except" ELSE next

(* The names web_api and mqtt_api are the imported modules of              *)
(* open_rack_vent.control_api; a module object is true.                    *)
web_api == TRUE

mqtt_api == TRUE

any(list) == \E i \in 1..Len(list) : list[i]

(* The loop left after its first stop.                                     *)
StopFirst(controller_apis) ==
    [i \in 1..(IF controller_apis = <<>> THEN 0 ELSE 1) |-> controller_apis[i]]

(*   for controller_api in controller_apis: controller_api.stop()          *)
StopAll(controller_apis) == [i \in 1..Len(controller_apis) |-> controller_apis[i]]

Entered ==
    [pc |-> "create_hardware_interface", hardware_interface |-> "None",
     jobs |-> <<>>, scheduler_started |-> FALSE, controller_apis |-> <<>>,
     ran |-> <<>>, stopped |-> <<>>, stop_event |-> FALSE, waited |-> FALSE,
     raised |-> FALSE]

(*   hardware_interface = create_hardware_interface(...)                   *)
RunCreateHardwareInterface ==
    /\ rn.pc = "create_hardware_interface"
    /\ LET made == create_hardware_interface(cli.pcb_revision, cli.platform, validation)
           failed == made.state = "raised"
       IN  /\ hardware' = made
           /\ rn' = [rn EXCEPT !.pc = Try(failed, "set_onboard_led"),
                               !.hardware_interface = IF failed THEN "None" ELSE "built",
                               !.raised = failed]
    /\ UNCHANGED <<payload, validation, cli, leds>>
    /\ UNCHANGED <<thermVars, mqttVars>>

(*   hardware_interface.set_onboard_led(OnboardLED.fault, False)           *)
RunSetOnboardLed ==
    /\ rn.pc = "set_onboard_led"
    /\ LET failed == cli.fails = "set_onboard_led"
       IN  /\ leds' = [leds EXCEPT !.by_run = Append(@, [led |-> "fault", value |-> FALSE])]
           /\ rn' = [rn EXCEPT !.pc = Try(failed, "add_job"), !.raised = failed]
    /\ UNCHANGED cli
    /\ UNCHANGED <<thermVars, wiringVars, mqttVars>>

(*   scheduler = BackgroundScheduler()                                     *)
(*   scheduler.add_job(toggling_job, ..., args=(<run LED>, count(0)))      *)
(*   if any([web_api, mqtt_api]):                                          *)
(*       scheduler.add_job(toggling_job, ..., args=(<web LED>, count(0)))  *)
(* Each count(0) is an object of its own, named here by its number.        *)
RunAddJobs ==
    /\ rn.pc = "add_job"
    /\ LET jobs == <<[led |-> "run", state_count |-> 1]>> \o
                   (IF any(<<web_api, mqtt_api>>)
                    THEN <<[led |-> "web", state_count |-> 2]>>
                    ELSE <<>>)
       IN  /\ rn' = [rn EXCEPT !.pc = "create_web_api", !.jobs = jobs]
           /\ leds' = [leds EXCEPT !.counters = [j \in 1..Len(jobs) |-> 0],
                                   !.toggled = [j \in 1..Len(jobs) |-> <<>>]]
    /\ UNCHANGED cli
    /\ UNCHANGED <<thermVars, wiringVars, mqttVars>>

(*   if enable_web_api:                                                    *)
(*       controller_apis.append(web_api.create_web_api(...))               *)
RunCreateWebApi ==
    /\ rn.pc = "create_web_api"
    /\ LET failed == cli.enable_web_api /\ cli.fails = "create_web_api"
       IN  rn' = [rn EXCEPT !.pc = Try(failed, "run_open_rack_vent_mqtt"),
                            !.raised = failed,
                            !.controller_apis =
                                IF cli.enable_web_api /\ ~failed
                                THEN Append(@, "web") ELSE @]
    /\ UNCHANGED <<cli, leds>>
    /\ UNCHANGED <<thermVars, wiringVars, mqttVars>>

(*   if enable_mqtt_api:                                                   *)
(*       controller_apis.append(mqtt_api.run_open_rack_vent_mqtt(...))     *)
RunCreateMqttApi ==
    /\ rn.pc = "run_open_rack_vent_mqtt"
    /\ LET failed == cli.enable_mqtt_api /\ cli.fails = "run_open_rack_vent_mqtt"
       IN  rn' = [rn EXCEPT !.pc = Try(failed, "scheduler.start"),
                            !.raised = failed,
                            !.controller_apis =
                                IF cli.enable_mqtt_api /\ ~failed
                                THEN Append(@, "mqtt") ELSE @]
    /\ UNCHANGED <<cli, leds>>
    /\ UNCHANGED <<thermVars, wiringVars, mqttVars>>

(*   scheduler.start()                                                     *)
RunSchedulerStart ==
    /\ rn.pc = "scheduler.start"
    /\ LET failed == cli.fails = "scheduler.start"
       IN  rn' = [rn EXCEPT !.pc = Try(failed, "non_blocking_run"),
                            !.raised = failed,
                            !.scheduler_started = ~failed]
    /\ UNCHANGED <<cli, leds>>
    /\ UNCHANGED <<thermVars, wiringVars, mqttVars>>

FailsToRun(controller_api) ==
    \/ controller_api = "web" /\ cli.fails = "web.non_blocking_run"
    \/ controller_api = "mqtt" /\ cli.fails = "mqtt.non_blocking_run"

(*   for controller_api in controller_apis:                                *)
(*       controller_api.non_blocking_run()                                 *)
(*   stop_event.wait()                                                     *)
(* The loop calls up to the first controller that fails; with none failing *)
(* run enters the wait.                                                    *)
RunNonBlockingRun ==
    /\ rn.pc = "non_blocking_run"
    /\ LET apis == rn.controller_apis
           failed == \E i \in 1..Len(apis) : FailsToRun(apis[i])
           last == IF failed
                   THEN CHOOSE i \in 1..Len(apis) :
                            FailsToRun(apis[i]) /\ \A k \in 1..(i - 1) : ~FailsToRun(apis[k])
                   ELSE Len(apis)
       IN  rn' = [rn EXCEPT !.pc = Try(failed, "wait"),
                            !.raised = failed,
                            !.ran = [i \in 1..last |-> apis[i]],
                            !.waited = ~failed]
    /\ UNCHANGED <<cli, leds>>
    /\ UNCHANGED <<thermVars, wiringVars, mqttVars>>

(* canonical_stop_event.py: trigger_quit, the handler of SIGINT, SIGTERM   *)
(* and SIGHUP, sets the event.                                             *)
TriggerQuit ==
    /\ rn.pc \notin {"idle", "done"}
    /\ ~rn.stop_event
    /\ rn' = [rn EXCEPT !.stop_event = TRUE]
    /\ UNCHANGED <<cli, leds>>
    /\ UNCHANGED <<thermVars, wiringVars, mqttVars>>

(* stop_event.wait() returns once the event is set.                        *)
RunWait ==
    /\ rn.pc = "wait"
    /\ rn.stop_event
    /\ rn' = [rn EXCEPT !.pc = "finally"]
    /\ UNCHANGED <<cli, leds>>
    /\ UNCHANGED <<thermVars, wiringVars, mqttVars>>

(*   except Exception:                                                     *)
(*       if hardware_interface is not None:                                *)
(*           hardware_interface.set_onboard_led(OnboardLED.fault, True)    *)
RunExcept ==
    /\ rn.pc = "except"
    /\ rn' = [rn EXCEPT !.pc = "finally"]
    /\ leds' = IF rn.hardware_interface # "None"
               THEN [leds EXCEPT !.by_run = Append(@, [led |-> "fault", value |-> TRUE])]
               ELSE leds
    /\ UNCHANGED cli
    /\ UNCHANGED <<thermVars, wiringVars, mqttVars>>

(*   finally:                                                              *)
(*       for controller_api in controller_apis:                            *)
(*           controller_api.stop()                                         *)
RunFinally ==
    /\ rn.pc = "finally"
    /\ rn' = [rn EXCEPT !.pc = "done", !.stopped = StopAll(rn.controller_apis)]
    /\ UNCHANGED <<cli, leds>>
    /\ UNCHANGED <<thermVars, wiringVars, mqttVars>>

(* The started scheduler executes the j-th job: toggling_job with the      *)
(* job's callable and the job's counter.                                   *)
TogglingJob(j) ==
    /\ rn.scheduler_started
    /\ rn.pc # "done"
    /\ j \in 1..Len(rn.jobs)
    /\ leds.counters[rn.jobs[j].state_count] < MaxTicks
    /\ LET job == rn.jobs[j]
           done == toggling_job(job.led, leds.counters[job.state_count])
       IN  leds' = [leds EXCEPT !.counters[job.state_count] = done.state_count,
                                !.toggled[j] = Append(@, [led |-> done.led,
                                                          value |-> done.value])]
    /\ UNCHANGED <<cli, rn>>
    /\ UNCHANGED <<thermVars, wiringVars, mqttVars>>

InitRun ==
    /\ cli \in Options
    /\ rn = Entered
    /\ leds = NoLedWrites
    /\ payload = DefaultWireMapping
    /\ validation = validate_pydantic_json(DefaultWireMapping)
    /\ hardware = NoHardware
    /\ ThermistorIdle
    /\ MqttIdle

NextRun ==
    \/ RunCreateHardwareInterface
    \/ RunSetOnboardLed
    \/ RunAddJobs
    \/ RunCreateWebApi
    \/ RunCreateMqttApi
    \/ RunSchedulerStart
    \/ RunNonBlockingRun
    \/ TriggerQuit
    \/ RunWait
    \/ RunExcept
    \/ RunFinally
    \/ \E j \in 1..2 : TogglingJob(j)

SpecRun == InitRun /\ [][NextRun]_vars

(* create_hardware_interface was called and raised.                        *)
CreateFailed == rn.pc # "create_hardware_interface" /\ hardware.state = "raised"

NoToggle == \A j \in 1..Len(leds.toggled) : leds.toggled[j] = <<>>

(* C14: when create_hardware_interface fails in run the startup is         *)
(* aborted: no controller API is created or run, no job is scheduled and   *)
(* the scheduler is not started, no LED operation is invoked, the          *)
(* interface staying None, and run goes to its final cleanup without       *)
(* waiting on the stop event.                                              *)
C14_FailedCreateAbortsStartup ==
    CreateFailed =>
        /\ rn.hardware_interface = "None"
        /\ rn.controller_apis = <<>>
        /\ rn.ran = <<>>
        /\ rn.stopped = <<>>
        /\ rn.jobs = <<>>
        /\ ~rn.scheduler_started
        /\ leds.by_run = <<>>
        /\ NoToggle
        /\ ~rn.waited
        /\ rn.pc \in {"except", "finally", "done"}

(* run has returned after a failed construction, both APIs enabled.        *)
C14_Witness ==
    /\ CreateFailed
    /\ rn.pc = "done"
    /\ cli.enable_web_api
    /\ cli.enable_mqtt_api
    /\ cli.pcb_revision \notin PCBRevision

Alternating(calls) == \A k \in 1..Len(calls) : calls[k].value = (k % 2 = 1)

(* C15: the executions of toggling_job on one counter that starts at 0     *)
(* call bool_callable with True, False, True, ... in turn, each execution  *)
(* advancing the counter by exactly one; the run-LED job and the web-LED   *)
(* job hold counters of their own, so neither disturbs the other.          *)
C15_TogglingAlternates ==
    /\ \A j \in 1..Len(leds.toggled) :
          /\ Alternating(leds.toggled[j])
          /\ leds.counters[rn.jobs[j].state_count] = Len(leds.toggled[j])
          /\ \A k \in 1..Len(leds.toggled[j]) : leds.toggled[j][k].led = rn.jobs[j].led
    /\ \A i, j \in 1..Len(rn.jobs) :
          i # j => rn.jobs[i].state_count # rn.jobs[j].state_count

(* Both jobs have run, a different number of times.                        *)
C15_Witness ==
    /\ Len(rn.jobs) = 2
    /\ Len(leds.toggled[1]) = 3
    /\ Len(leds.toggled[2]) = 2
    /\ leds.toggled[1][3].value
    /\ ~leds.toggled[2][2].value

C16_WitnessSignal ==
    /\ rn.pc = "done"
    /\ ~rn.raised
    /\ rn.stop_event
    /\ rn.ran = <<"web", "mqtt">>
    /\ rn.stopped = <<"web", "mqtt">>

WebJobScheduled == \E j \in 1..Len(rn.jobs) : rn.jobs[j].led = "web"

WebLedWritten ==
    \E j \in 1..Len(leds.toggled) : \E k \in 1..Len(leds.toggled[j]) :
        leds.toggled[j][k].led = "web"

(* C17: the job that toggles the web LED is scheduled only when the web    *)
(* API or the MQTT API is enabled; with both enable flags false only the   *)
(* run-LED job is scheduled and the web LED is never written.              *)
C17_WebLedOnlyWhenEnabled ==
    (~cli.enable_web_api /\ ~cli.enable_mqtt_api) =>
        /\ ~WebJobScheduled
        /\ ~WebLedWritten

====
